---- MODULE Spec2Model ----
(***************************************************************************)
(* Model of the task manager's service layer: GestorTareas                 *)
(* (src/gestor_tareas.py) over the Usuario entity (src/usuarios.py).       *)
(*                                                                         *)
(* Every service method is one action; its inputs (names, roles,           *)
(* passwords, the acting user, and the outcome of each file write) are     *)
(* drawn from small sets.  A raised exception is recorded in `res`.        *)
(* The modules tareas.py and utils.py are not part of the sources at       *)
(* hand: the Tarea entity and the file helpers follow the design           *)
(* document (sections 4.3 and 6).                                          *)
(***************************************************************************)
EXTENDS Integers, Sequences, FiniteSets, TLC

\* ------------------------------------------------------------------------
\* Bounds and input sets
\* ------------------------------------------------------------------------

\* Longest archive the model lets finalizar_tarea grow.
MaxHistorico == 2

\* Number of file writes that may fail in one run.
MaxFallos == 2

\* Python's None for an optional argument.
Ninguna == "<None>"

\* User names offered to the service ("" is the empty input).
Nombres == {"ana", "bob"}
NombresEntrada == Nombres \cup {""}

NombresVisibles == {"Ana"}

Roles == {"user", "supervisor", "admin"}
RolesEntrada == Roles \cup {"guest"}

\* Passwords given at creation (None, empty, or a real one) and at login.
PasswordsCrear == {Ninguna, "", "p1"}
PasswordsValidos == {Ninguna, "p1"}
PasswordsLogin == {"p1", "p2"}

Salts == {"s1"}

NombresTarea == {"t1"}
NombresTareaEntrada == NombresTarea \cup {""}

Descripciones == {"d1"}

\* Outcome of the file writes of one call: every write succeeds, or the
\* named write raises.
Escrituras == {"ok", "falla_historico", "falla_usuarios", "falla_tareas"}

VARIABLES
    usuarios,   \* GestorTareas.usuarios: dict nombre -> Usuario
    tareas,     \* GestorTareas.tareas: dict nombre -> Tarea
    historico,  \* contents of tareas_finalizadas.json
    disco,      \* contents of usuarios.dat and tareas.dat
    creador,    \* history: role of the actor that created each live task
    nextId,     \* number of ids handed out so far (uuid4 is always fresh)
    fallos,     \* number of failed file writes so far
    res,        \* outcome of the last call: the method and what it raised
    sesion,     \* main.py: where the console program is, and who is logged in
    hilos       \* calls in progress when the service is shared by threads

vars == <<usuarios, tareas, historico, disco, creador, nextId, fallos, res,
          sesion, hilos>>

\* The empty dict.
Vacio == [x \in {} |-> x]

\* dict[k] = v for a key the dict may or may not hold.
Poner(d, k, v) == [x \in DOMAIN d \cup {k} |-> IF x = k THEN v ELSE d[x]]

\* del dict[k]
Quitar(d, k) == [x \in DOMAIN d \ {k} |-> d[x]]

\* ------------------------------------------------------------------------
\* Usuario (src/usuarios.py)
\* ------------------------------------------------------------------------

\* password_hash is None
SinHash == <<>>

\* Two passwords of 73 bytes that share their first 72 bytes, written
\* "L72" here.
PasswordsLargas == {"L72+a", "L72+b"}

\* The bytes of a password that bcrypt reads: the first 72.
Primeros72(password) ==
    IF password \in PasswordsLargas THEN "L72" ELSE password

\* bcrypt.hashpw(password, salt): the salt is kept in the hash.
HashPw(password, salt) == <<salt, Primeros72(password)>>

\* bcrypt.checkpw(password, hash): hash again with the stored salt.
CheckPw(password, hash) == HashPw(password, hash[1]) = hash

\* datetime.now() at the k-th creation of a user: seconds and
\* microseconds, the microseconds being zero at some creations.
Ahora(k) == [segundos |-> k, microsegundos |-> k % 2]

\* Usuario.__init__ accepting any role.
UsuarioInitError_sin_rol(nombre, rol, password) ==
    IF nombre = "" THEN "El nombre de usuario no puede estar vacío."
    ELSE IF password # Ninguna /\ password = ""
        THEN "La contraseña no puede estar vacía."
    ELSE ""

\* Usuario.__init__: the message of the ValueError it raises, "" if none.
UsuarioInitError(nombre, rol, password) ==
    IF nombre = "" THEN "El nombre de usuario no puede estar vacío."
    ELSE IF rol \notin {"user", "supervisor", "admin"}
        THEN "El rol debe ser 'user', 'supervisor' o 'admin'."
    ELSE IF password # Ninguna /\ password = ""
        THEN "La contraseña no puede estar vacía."
    ELSE ""

\* Usuario.__init__ on valid arguments, with cambiar_password when a
\* password is given.
Usuario(id, nombre, nombre_visible, rol, password, salt) ==
    [id |-> id,
     nombre |-> nombre,
     nombre_visible |-> nombre_visible,
     rol |-> rol,
     fecha_creacion |-> Ahora(id),
     password_hash |-> IF password = Ninguna THEN SinHash
                       ELSE HashPw(password, salt)]

es_admin(u) == u.rol = "admin"

es_supervisor(u) == u.rol = "supervisor"

\* Usuario.verificar_password: "sin_password" stands for the ValueError of
\* a user without a hash, otherwise the boolean of bcrypt.checkpw.
verificar_password(u, password) ==
    IF u.password_hash = SinHash THEN "sin_password"
    ELSE IF CheckPw(password, u.password_hash) THEN "true" ELSE "false"

\* resetear_password that keeps the stored hash.
resetear_password_sin_efecto(u) == u

\* Usuario.resetear_password
resetear_password(u) == [u EXCEPT !.password_hash = SinHash]

\* ------------------------------------------------------------------------
\* Tarea (tareas.py, design document section 4.3)
\* ------------------------------------------------------------------------

\* Tarea.__init__: a new task is pending, unassigned, without comments.
Tarea(nombre, descripcion) ==
    [nombre |-> nombre,
     descripcion |-> descripcion,
     estado |-> "pendiente",
     usuarios_asignados |-> {},
     comentarios |-> <<>>]

\* Tarea.agregar_usuario: adds the user if absent.
agregar_usuario(t, u) ==
    [t EXCEPT !.usuarios_asignados = @ \cup {u.id}]

\* Tarea.cambiar_estado("finalizada") raises on a finished task.
PuedeFinalizar(t) == t.estado # "finalizada"

cambiar_estado(t, nuevo) == [t EXCEPT !.estado = nuevo]

\* Tarea.obtener_detalle: the snapshot of all fields.
obtener_detalle(t) ==
    [nombre |-> t.nombre,
     descripcion |-> t.descripcion,
     estado |-> t.estado,
     usuarios_asignados |-> t.usuarios_asignados,
     comentarios |-> t.comentarios]

\* ------------------------------------------------------------------------
\* Outcomes
\* ------------------------------------------------------------------------

Res(op, exc, msg) == [op |-> op, exc |-> exc, msg |-> msg]

Ok(op) == Res(op, "none", "")

\* The exception of a failed file write.
ErrorEscritura(op) == Res(op, "OSError", "write failed")

\* The errors of the Tarea entity, by the kinds of the design document:
\* Tarea.__init__ on an empty name, Tarea.cambiar_estado on a finished task.
ErrorNombreTareaVacio ==
    Res("crear_tarea", "ValidationError", "empty task name")

ErrorYaFinalizada ==
    Res("finalizar_tarea", "StateError", "task already finished")

\* A call that raises before it changes anything.
Raise(op, exc, msg) ==
    /\ res' = Res(op, exc, msg)
    /\ UNCHANGED <<usuarios, tareas, historico, disco, creador, nextId, fallos>>

\* The same in a method that writes files: no write was attempted, so the
\* call has no write outcome to choose.
RaiseAntes(w, op, exc, msg) ==
    /\ w = "ok"
    /\ Raise(op, exc, msg)

\* ------------------------------------------------------------------------
\* Persistence
\* ------------------------------------------------------------------------

\* _guardar_todo writing usuarios.dat only.
GuardarTodo_solo_usuarios(us, ts, w) ==
    IF w = "falla_usuarios" THEN disco
    ELSE [disco EXCEPT !.usuarios = us]

\* GestorTareas._guardar_todo: usuarios.dat is written, then tareas.dat;
\* a write that raises leaves its file and the later one as they were.
GuardarTodo(us, ts, w) ==
    IF w = "falla_usuarios" THEN disco
    ELSE IF w = "falla_tareas" THEN [disco EXCEPT !.usuarios = us]
    ELSE [usuarios |-> us, tareas |-> ts]

\* The writes a call can see fail, within the budget of failures.
PuedeFallar(w, posibles) ==
    /\ w \in posibles
    /\ w # "ok" => fallos < MaxFallos

\* The tail of every mutating method: save, count a failure, report.
Persistir(op, us, ts, w) ==
    /\ disco' = GuardarTodo(us, ts, w)
    /\ fallos' = IF w = "ok" THEN fallos ELSE fallos + 1
    /\ res' = IF w = "ok" THEN Ok(op) ELSE ErrorEscritura(op)

SoloGuardado == {"ok", "falla_usuarios", "falla_tareas"}

\* ------------------------------------------------------------------------
\* GestorTareas: users
\* ------------------------------------------------------------------------

\* Mutant: the name is not looked up before the user is stored.
crear_usuario_sin_chequeo(nombre, nombre_visible, rol, password, salt, w) ==
    IF UsuarioInitError(nombre, rol, password) # ""
    THEN RaiseAntes(w, "crear_usuario", "ValueError",
                    UsuarioInitError(nombre, rol, password))
    ELSE LET usuario == Usuario(nextId + 1, nombre, nombre_visible, rol,
                                password, salt)
             us == Poner(usuarios, nombre, usuario)
         IN /\ PuedeFallar(w, SoloGuardado)
            /\ usuarios' = us
            /\ nextId' = nextId + 1
            /\ Persistir("crear_usuario", us, tareas, w)
            /\ UNCHANGED <<tareas, historico, creador>>

\* crear_usuario taking the new user back when the save raises.
crear_usuario_con_rollback(nombre, nombre_visible, rol, password, salt, w) ==
    IF nombre \in DOMAIN usuarios
    THEN RaiseAntes(w, "crear_usuario", "ValueError",
                    "Ya existe un usuario con ese nombre.")
    ELSE IF UsuarioInitError(nombre, rol, password) # ""
    THEN RaiseAntes(w, "crear_usuario", "ValueError",
                    UsuarioInitError(nombre, rol, password))
    ELSE LET usuario == Usuario(nextId + 1, nombre, nombre_visible, rol,
                                password, salt)
             us == Poner(usuarios, nombre, usuario)
         IN /\ PuedeFallar(w, SoloGuardado)
            /\ usuarios' = IF w = "ok" THEN us ELSE usuarios
            /\ nextId' = nextId + 1
            /\ Persistir("crear_usuario", us, tareas, w)
            /\ UNCHANGED <<tareas, historico, creador>>

crear_usuario(nombre, nombre_visible, rol, password, salt, w) ==
    IF nombre \in DOMAIN usuarios
    THEN RaiseAntes(w, "crear_usuario", "ValueError",
                    "Ya existe un usuario con ese nombre.")
    ELSE IF UsuarioInitError(nombre, rol, password) # ""
    THEN RaiseAntes(w, "crear_usuario", "ValueError",
                    UsuarioInitError(nombre, rol, password))
    ELSE LET usuario == Usuario(nextId + 1, nombre, nombre_visible, rol,
                                password, salt)
             us == Poner(usuarios, nombre, usuario)
         IN /\ PuedeFallar(w, SoloGuardado)
            /\ usuarios' = us
            /\ nextId' = nextId + 1
            /\ Persistir("crear_usuario", us, tareas, w)
            /\ UNCHANGED <<tareas, historico, creador>>

\* The exception autenticar_usuario raises, Ok if it returns the user.
AutenticarRes(us, nombre, password) ==
    IF nombre \notin DOMAIN us
    THEN Res("autenticar_usuario", "ValueError", "Usuario inexistente.")
    ELSE IF verificar_password(us[nombre], password) = "sin_password"
    THEN Res("autenticar_usuario", "ValueError",
             "El usuario no tiene contraseña configurada.")
    ELSE IF verificar_password(us[nombre], password) = "false"
    THEN Res("autenticar_usuario", "ValueError", "Contraseña incorrecta.")
    ELSE Ok("autenticar_usuario")

autenticar_usuario(nombre, password) ==
    /\ res' = AutenticarRes(usuarios, nombre, password)
    /\ UNCHANGED <<usuarios, tareas, historico, disco, creador, nextId, fallos>>

\* resetear_password_usuario looking the target up before the admin check.
resetear_password_usuario_busca_primero(admin, nombre_usuario, w) ==
    IF nombre_usuario \notin DOMAIN usuarios
    THEN RaiseAntes(w, "resetear_password_usuario", "ValueError",
                    "Usuario inexistente.")
    ELSE IF ~es_admin(usuarios[admin])
    THEN RaiseAntes(w, "resetear_password_usuario", "PermissionError",
                    "Solo un admin puede resetear contraseñas.")
    ELSE LET us == [usuarios EXCEPT
                       ![nombre_usuario] = resetear_password(@)]
         IN /\ PuedeFallar(w, SoloGuardado)
            /\ usuarios' = us
            /\ Persistir("resetear_password_usuario", us, tareas, w)
            /\ UNCHANGED <<tareas, historico, creador, nextId>>

resetear_password_usuario(admin, nombre_usuario, w) ==
    IF ~es_admin(usuarios[admin])
    THEN RaiseAntes(w, "resetear_password_usuario", "PermissionError",
                    "Solo un admin puede resetear contraseñas.")
    ELSE IF nombre_usuario \notin DOMAIN usuarios
    THEN RaiseAntes(w, "resetear_password_usuario", "ValueError",
                    "Usuario inexistente.")
    ELSE LET us == [usuarios EXCEPT
                       ![nombre_usuario] = resetear_password(@)]
         IN /\ PuedeFallar(w, SoloGuardado)
            /\ usuarios' = us
            /\ Persistir("resetear_password_usuario", us, tareas, w)
            /\ UNCHANGED <<tareas, historico, creador, nextId>>

\* ------------------------------------------------------------------------
\* GestorTareas: tasks
\* ------------------------------------------------------------------------

\* Lines 134-137 of crear_tarea.
AltaTarea(nombre, descripcion, actor, w) ==
    LET ts == Poner(tareas, nombre, Tarea(nombre, descripcion))
    IN /\ PuedeFallar(w, SoloGuardado)
       /\ tareas' = ts
       /\ creador' = Poner(creador, nombre, usuarios[actor].rol)
       /\ Persistir("crear_tarea", usuarios, ts, w)
       /\ UNCHANGED <<usuarios, historico, nextId>>

\* Mutant: any logged-in user may create a task.
crear_tarea_sin_permiso(nombre, descripcion, actor, w) ==
    IF nombre \in DOMAIN tareas
    THEN RaiseAntes(w, "crear_tarea", "ValueError",
                    "Ya existe una tarea con ese nombre.")
    ELSE IF nombre = ""
    THEN RaiseAntes(w, ErrorNombreTareaVacio.op, ErrorNombreTareaVacio.exc,
                    ErrorNombreTareaVacio.msg)
    ELSE AltaTarea(nombre, descripcion, actor, w)

\* Mutant: a task of the same name is replaced.
crear_tarea_sin_duplicado(nombre, descripcion, actor, w) ==
    IF ~(es_admin(usuarios[actor]) \/ es_supervisor(usuarios[actor]))
    THEN RaiseAntes(w, "crear_tarea", "PermissionError",
                    "Solo administradores o supervisores pueden crear tareas.")
    ELSE IF nombre = ""
    THEN RaiseAntes(w, ErrorNombreTareaVacio.op, ErrorNombreTareaVacio.exc,
                    ErrorNombreTareaVacio.msg)
    ELSE AltaTarea(nombre, descripcion, actor, w)

crear_tarea(nombre, descripcion, actor, w) ==
    IF ~(es_admin(usuarios[actor]) \/ es_supervisor(usuarios[actor]))
    THEN RaiseAntes(w, "crear_tarea", "PermissionError",
                    "Solo administradores o supervisores pueden crear tareas.")
    ELSE IF nombre \in DOMAIN tareas
    THEN RaiseAntes(w, "crear_tarea", "ValueError",
                    "Ya existe una tarea con ese nombre.")
    ELSE IF nombre = ""
    THEN RaiseAntes(w, ErrorNombreTareaVacio.op, ErrorNombreTareaVacio.exc,
                    ErrorNombreTareaVacio.msg)
    ELSE AltaTarea(nombre, descripcion, actor, w)

\* Lines 160-161 of asignar_usuario_tarea.
Asignar(nombre_usuario, nombre_tarea, w) ==
    LET ts == [tareas EXCEPT ![nombre_tarea] =
                   agregar_usuario(@, usuarios[nombre_usuario])]
    IN /\ PuedeFallar(w, SoloGuardado)
       /\ tareas' = ts
       /\ Persistir("asignar_usuario_tarea", usuarios, ts, w)
       /\ UNCHANGED <<usuarios, historico, creador, nextId>>

\* Mutant: a supervisor may assign a task to anybody.
asignar_usuario_tarea_sin_restriccion(actor, nombre_usuario, nombre_tarea, w) ==
    IF ~(es_admin(usuarios[actor]) \/ es_supervisor(usuarios[actor]))
    THEN RaiseAntes(w, "asignar_usuario_tarea", "PermissionError",
                    "No tiene permisos para asignar tareas.")
    ELSE IF nombre_usuario \notin DOMAIN usuarios
            \/ nombre_tarea \notin DOMAIN tareas
    THEN RaiseAntes(w, "asignar_usuario_tarea", "ValueError",
                    "Usuario o tarea inexistente.")
    ELSE Asignar(nombre_usuario, nombre_tarea, w)

\* asignar_usuario_tarea looking the user and the task up before it tests
\* the actor.
asignar_usuario_tarea_busca_primero(actor, nombre_usuario, nombre_tarea, w) ==
    IF nombre_usuario \notin DOMAIN usuarios
       \/ nombre_tarea \notin DOMAIN tareas
    THEN RaiseAntes(w, "asignar_usuario_tarea", "ValueError",
                    "Usuario o tarea inexistente.")
    ELSE IF ~(es_admin(usuarios[actor]) \/ es_supervisor(usuarios[actor]))
    THEN RaiseAntes(w, "asignar_usuario_tarea", "PermissionError",
                    "No tiene permisos para asignar tareas.")
    ELSE IF es_supervisor(usuarios[actor])
            /\ usuarios[nombre_usuario].rol # "user"
    THEN RaiseAntes(w, "asignar_usuario_tarea", "PermissionError",
                    "Un supervisor solo puede asignar tareas a usuarios "
                    \o "comunes.")
    ELSE Asignar(nombre_usuario, nombre_tarea, w)

asignar_usuario_tarea(actor, nombre_usuario, nombre_tarea, w) ==
    IF ~(es_admin(usuarios[actor]) \/ es_supervisor(usuarios[actor]))
    THEN RaiseAntes(w, "asignar_usuario_tarea", "PermissionError",
                    "No tiene permisos para asignar tareas.")
    ELSE IF nombre_usuario \notin DOMAIN usuarios
            \/ nombre_tarea \notin DOMAIN tareas
    THEN RaiseAntes(w, "asignar_usuario_tarea", "ValueError",
                    "Usuario o tarea inexistente.")
    ELSE IF es_supervisor(usuarios[actor])
            /\ usuarios[nombre_usuario].rol # "user"
    THEN RaiseAntes(w, "asignar_usuario_tarea", "PermissionError",
                    "Un supervisor solo puede asignar tareas a usuarios "
                    \o "comunes.")
    ELSE Asignar(nombre_usuario, nombre_tarea, w)

\* Lines 174-178 of finalizar_tarea: the archive is read, the entry is
\* appended and the file written back, then the live collections are saved.
\* The task is already changed in memory when the first write is tried.
ArchivarYGuardar(ts, leido, detalle, w) ==
    /\ PuedeFallar(w, Escrituras)
    /\ Len(historico) < MaxHistorico
    /\ tareas' = ts
    /\ IF w = "falla_historico"
       THEN /\ UNCHANGED <<historico, disco>>
            /\ fallos' = fallos + 1
            /\ res' = ErrorEscritura("finalizar_tarea")
       ELSE /\ historico' = Append(leido, detalle)
            /\ Persistir("finalizar_tarea", usuarios, ts, w)
    /\ UNCHANGED <<usuarios, creador, nextId>>

\* Mutant: the error of a task that is already finished is swallowed.
finalizar_tarea_sin_estado(nombre_tarea, w) ==
    IF nombre_tarea \notin DOMAIN tareas
    THEN RaiseAntes(w, "finalizar_tarea", "ValueError", "Tarea inexistente.")
    ELSE LET ts == [tareas EXCEPT ![nombre_tarea] =
                        cambiar_estado(@, "finalizada")]
         IN ArchivarYGuardar(ts, historico,
                             obtener_detalle(ts[nombre_tarea]), w)

\* Mutant: the archive file is not read back before it is written.
finalizar_tarea_sin_leer(nombre_tarea, w) ==
    IF nombre_tarea \notin DOMAIN tareas
    THEN RaiseAntes(w, "finalizar_tarea", "ValueError", "Tarea inexistente.")
    ELSE IF ~PuedeFinalizar(tareas[nombre_tarea])
    THEN RaiseAntes(w, ErrorYaFinalizada.op, ErrorYaFinalizada.exc,
                    ErrorYaFinalizada.msg)
    ELSE LET ts == [tareas EXCEPT ![nombre_tarea] =
                        cambiar_estado(@, "finalizada")]
         IN ArchivarYGuardar(ts, <<>>, obtener_detalle(ts[nombre_tarea]), w)

\* Mutant: the detail is taken before the status changes.
finalizar_tarea_detalle_previo(nombre_tarea, w) ==
    IF nombre_tarea \notin DOMAIN tareas
    THEN RaiseAntes(w, "finalizar_tarea", "ValueError", "Tarea inexistente.")
    ELSE IF ~PuedeFinalizar(tareas[nombre_tarea])
    THEN RaiseAntes(w, ErrorYaFinalizada.op, ErrorYaFinalizada.exc,
                    ErrorYaFinalizada.msg)
    ELSE LET ts == [tareas EXCEPT ![nombre_tarea] =
                        cambiar_estado(@, "finalizada")]
         IN ArchivarYGuardar(ts, historico,
                             obtener_detalle(tareas[nombre_tarea]), w)

finalizar_tarea(nombre_tarea, w) ==
    IF nombre_tarea \notin DOMAIN tareas
    THEN RaiseAntes(w, "finalizar_tarea", "ValueError", "Tarea inexistente.")
    ELSE IF ~PuedeFinalizar(tareas[nombre_tarea])
    THEN RaiseAntes(w, ErrorYaFinalizada.op, ErrorYaFinalizada.exc,
                    ErrorYaFinalizada.msg)
    ELSE LET ts == [tareas EXCEPT ![nombre_tarea] =
                        cambiar_estado(@, "finalizada")]
         IN ArchivarYGuardar(ts, historico,
                             obtener_detalle(ts[nombre_tarea]), w)

\* Mutant: a pending task is deleted too.
eliminar_tarea_sin_estado(nombre_tarea, w) ==
    IF nombre_tarea \notin DOMAIN tareas
    THEN RaiseAntes(w, "eliminar_tarea", "ValueError", "Tarea inexistente.")
    ELSE LET ts == Quitar(tareas, nombre_tarea)
         IN /\ PuedeFallar(w, SoloGuardado)
            /\ tareas' = ts
            /\ creador' = Quitar(creador, nombre_tarea)
            /\ Persistir("eliminar_tarea", usuarios, ts, w)
            /\ UNCHANGED <<usuarios, historico, nextId>>

eliminar_tarea(nombre_tarea, w) ==
    IF nombre_tarea \notin DOMAIN tareas
    THEN RaiseAntes(w, "eliminar_tarea", "ValueError", "Tarea inexistente.")
    ELSE IF tareas[nombre_tarea].estado # "finalizada"
    THEN RaiseAntes(w, "eliminar_tarea", "ValueError",
                    "Solo se pueden eliminar tareas finalizadas.")
    ELSE LET ts == Quitar(tareas, nombre_tarea)
         IN /\ PuedeFallar(w, SoloGuardado)
            /\ tareas' = ts
            /\ creador' = Quitar(creador, nombre_tarea)
            /\ Persistir("eliminar_tarea", usuarios, ts, w)
            /\ UNCHANGED <<usuarios, historico, nextId>>

\* ------------------------------------------------------------------------
\* Initial state and next-state relation
\* ------------------------------------------------------------------------

\* GestorTareas.__init__ on a fresh installation: no files yet.
GestorInit ==
    /\ usuarios = Vacio
    /\ tareas = Vacio
    /\ historico = <<>>
    /\ disco = [usuarios |-> Vacio, tareas |-> Vacio]
    /\ creador = Vacio
    /\ nextId = 0
    /\ fallos = 0
    /\ res = Res("__init__", "none", "")

\* The service used directly: no console program and no threads.
SinSesion == [pc |-> "ninguno", usuario |-> Ninguna, intentos |-> 0]

SinHilos == <<>>

SoloServicio == UNCHANGED <<sesion, hilos>>

Init ==
    /\ GestorInit
    /\ sesion = SinSesion
    /\ hilos = SinHilos

CrearUsuario(W) ==
    /\ SoloServicio
    /\ \E nombre \in NombresEntrada, nombre_visible \in NombresVisibles,
       rol \in RolesEntrada, password \in PasswordsCrear,
       salt \in Salts, w \in W :
        crear_usuario(nombre, nombre_visible, rol, password, salt, w)

AutenticarUsuario ==
    /\ SoloServicio
    /\ \E nombre \in Nombres, password \in PasswordsLogin :
        autenticar_usuario(nombre, password)

ResetearPasswordUsuario(W) ==
    /\ SoloServicio
    /\ \E admin \in DOMAIN usuarios, nombre_usuario \in Nombres, w \in W :
        resetear_password_usuario(admin, nombre_usuario, w)

CrearTarea(W) ==
    /\ SoloServicio
    /\ \E nombre \in NombresTareaEntrada, descripcion \in Descripciones,
       actor \in DOMAIN usuarios, w \in W :
        crear_tarea(nombre, descripcion, actor, w)

AsignarUsuarioTarea(W) ==
    /\ SoloServicio
    /\ \E actor \in DOMAIN usuarios, nombre_usuario \in Nombres,
       nombre_tarea \in NombresTarea, w \in W :
        asignar_usuario_tarea(actor, nombre_usuario, nombre_tarea, w)

FinalizarTarea(W) ==
    /\ SoloServicio
    /\ \E nombre_tarea \in NombresTarea, w \in W :
        finalizar_tarea(nombre_tarea, w)

EliminarTarea(W) ==
    /\ SoloServicio
    /\ \E nombre_tarea \in NombresTarea, w \in W :
        eliminar_tarea(nombre_tarea, w)

\* Every file write succeeds.
SinFallos == {"ok"}

Next ==
    \/ CrearUsuario(SinFallos)
    \/ AutenticarUsuario
    \/ ResetearPasswordUsuario(SinFallos)
    \/ CrearTarea(SinFallos)
    \/ AsignarUsuarioTarea(SinFallos)
    \/ FinalizarTarea(SinFallos)
    \/ EliminarTarea(SinFallos)

Spec == Init /\ [][Next]_vars

\* Well-formed input of the two creating methods: the ill-formed input is
\* refused before any write is attempted.
CrearUsuarioValido(W) ==
    /\ SoloServicio
    /\ \E nombre \in Nombres, nombre_visible \in NombresVisibles,
       rol \in Roles, password \in PasswordsValidos, salt \in Salts,
       w \in W :
        crear_usuario(nombre, nombre_visible, rol, password, salt, w)

CrearTareaValida(W) ==
    /\ SoloServicio
    /\ \E nombre \in NombresTarea, descripcion \in Descripciones,
       actor \in DOMAIN usuarios, w \in W :
        crear_tarea(nombre, descripcion, actor, w)

\* The mutating methods of the service when file writes may raise.
NextFallos ==
    \/ CrearUsuarioValido(Escrituras)
    \/ ResetearPasswordUsuario(Escrituras)
    \/ CrearTareaValida(Escrituras)
    \/ AsignarUsuarioTarea(Escrituras)
    \/ FinalizarTarea(Escrituras)
    \/ EliminarTarea(Escrituras)

SpecFallos == Init /\ [][NextFallos]_vars

\* ------------------------------------------------------------------------
\* The console program (src/main.py)
\* ------------------------------------------------------------------------

\* Names typed at the console: enough for one user of each role.
NombresMain == Nombres \cup {"eva"}

\* flujo_login: intentos = 3
IntentosLogin == 3

\* A password typed twice in the first-login assistant.
PasswordsNuevas == {"p2"}

\* GestorTareas.existe_admin
existe_admin == \E n \in DOMAIN usuarios : es_admin(usuarios[n])

\* Usuario.cambiar_password on a non-empty password.
cambiar_password(u, password, salt) ==
    [u EXCEPT !.password_hash = HashPw(password, salt)]

Sesion(pc, usuario, intentos) ==
    [pc |-> pc, usuario |-> usuario, intentos |-> intentos]

\* The start of flujo_login.
EnLogin == Sesion("flujo_login", Ninguna, IntentosLogin)

Menus == {"menu_admin", "menu_supervisor", "menu_usuario"}

\* Everybody gets the menu of the admin.
MenuDe_siempre_admin(u) == "menu_admin"

\* main: the menu of the role of the user that logged in.
MenuDe(u) ==
    IF es_admin(u) THEN "menu_admin"
    ELSE IF es_supervisor(u) THEN "menu_supervisor"
    ELSE "menu_usuario"

\* The program is started on a fresh installation.
InitMain ==
    /\ GestorInit
    /\ sesion = Sesion("main", Ninguna, 0)
    /\ hilos = SinHilos

\* main going to the login whether or not an admin exists.
Main_sin_admin_inicial ==
    /\ sesion.pc = "main"
    /\ sesion' = EnLogin
    /\ UNCHANGED <<usuarios, tareas, historico, disco, creador, nextId,
                   fallos, res, hilos>>

\* main, lines 225-230: the first admin is asked for when there is none.
Main ==
    /\ sesion.pc = "main"
    /\ sesion' = IF existe_admin THEN EnLogin
                 ELSE Sesion("flujo_crear_admin_inicial", Ninguna, 0)
    /\ UNCHANGED <<usuarios, tareas, historico, disco, creador, nextId,
                   fallos, res, hilos>>

\* The program is started again after sys.exit: GestorTareas.__init__
\* loads both collections from their files.
Reiniciar ==
    /\ sesion.pc = "exit"
    /\ usuarios' = disco.usuarios
    /\ tareas' = disco.tareas
    /\ creador' = [t \in DOMAIN disco.tareas \cap DOMAIN creador |->
                      creador[t]]
    /\ res' = Res("__init__", "none", "")
    /\ sesion' = Sesion("main", Ninguna, 0)
    /\ UNCHANGED <<historico, disco, nextId, fallos, hilos>>

\* flujo_crear_admin_inicial: the role is forced to admin, a missing
\* password is refused, and the loop ends when the user is created.
FlujoCrearAdminInicial ==
    /\ sesion.pc = "flujo_crear_admin_inicial"
    /\ \E nombre \in NombresMain, nombre_visible \in NombresVisibles,
          password \in PasswordsValidos, salt \in Salts :
          IF password = Ninguna
          THEN UNCHANGED vars
          ELSE /\ crear_usuario(nombre, nombre_visible, "admin", password,
                                salt, "ok")
               /\ sesion' = IF res'.exc = "none" THEN EnLogin ELSE sesion
               /\ UNCHANGED hilos

\* flujo_login that does not count a failed attempt.
IntentoDeLogin_sin_descontar(usuario, password, nueva_pwd, salt) ==
    LET r == AutenticarRes(usuarios, usuario, password)
    IN /\ sesion.pc = "flujo_login"
       /\ res' = r
       /\ IF r.exc = "none"
          THEN /\ usuarios' =
                     IF usuarios[usuario].password_hash = SinHash
                     THEN [usuarios EXCEPT ![usuario] =
                              cambiar_password(@, nueva_pwd, salt)]
                     ELSE usuarios
               /\ sesion' = Sesion(MenuDe(usuarios[usuario]), usuario, 0)
          ELSE /\ usuarios' = usuarios
               /\ sesion' = sesion
       /\ UNCHANGED <<tareas, historico, disco, creador, nextId, fallos,
                      hilos>>

\* One round of the loop of flujo_login for the credentials typed.
IntentoDeLogin(usuario, password, nueva_pwd, salt) ==
    LET r == AutenticarRes(usuarios, usuario, password)
    IN /\ sesion.pc = "flujo_login"
       /\ res' = r
       /\ IF r.exc = "none"
          THEN /\ usuarios' =
                     IF usuarios[usuario].password_hash = SinHash
                     THEN [usuarios EXCEPT ![usuario] =
                              cambiar_password(@, nueva_pwd, salt)]
                     ELSE usuarios
               /\ sesion' = Sesion(MenuDe(usuarios[usuario]), usuario, 0)
          ELSE /\ usuarios' = usuarios
               /\ sesion' = IF sesion.intentos = 1
                            THEN Sesion("exit", Ninguna, 0)
                            ELSE [sesion EXCEPT !.intentos = @ - 1]
       /\ UNCHANGED <<tareas, historico, disco, creador, nextId, fallos,
                      hilos>>

FlujoLogin ==
    /\ sesion.pc = "flujo_login"
    /\ \E usuario \in NombresMain, password \in PasswordsLogin,
          nueva_pwd \in PasswordsNuevas, salt \in Salts :
          IntentoDeLogin(usuario, password, nueva_pwd, salt)

\* menu_admin, option 2
MenuAdminCrearUsuario ==
    /\ sesion.pc = "menu_admin"
    /\ \E nombre \in NombresMain, nombre_visible \in NombresVisibles,
          rol \in Roles, password \in PasswordsValidos, salt \in Salts :
          crear_usuario(nombre, nombre_visible, rol, password, salt, "ok")
    /\ UNCHANGED <<sesion, hilos>>

\* menu_admin, option 3
MenuAdminResetear ==
    /\ sesion.pc = "menu_admin"
    /\ \E nombre \in NombresMain :
          resetear_password_usuario(sesion.usuario, nombre, "ok")
    /\ UNCHANGED <<sesion, hilos>>

\* menu_supervisor, option 1
MenuSupervisorCrearTarea ==
    /\ sesion.pc = "menu_supervisor"
    /\ \E nombre \in NombresTarea, descripcion \in Descripciones :
          crear_tarea(nombre, descripcion, sesion.usuario, "ok")
    /\ UNCHANGED <<sesion, hilos>>

\* menu_supervisor, option 2
MenuSupervisorAsignar ==
    /\ sesion.pc = "menu_supervisor"
    /\ \E nombre_usuario \in NombresMain, nombre_tarea \in NombresTarea :
          asignar_usuario_tarea(sesion.usuario, nombre_usuario,
                                nombre_tarea, "ok")
    /\ UNCHANGED <<sesion, hilos>>

\* menu_usuario, option 2, for the users that main sends to this menu:
\* crear_tarea raises for them, so the asignar_usuario_tarea that follows
\* it is not called.
MenuUsuarioCrearTarea ==
    /\ sesion.pc = "menu_usuario"
    /\ MenuDe(usuarios[sesion.usuario]) = "menu_usuario"
    /\ \E nombre \in NombresTarea, descripcion \in Descripciones :
          crear_tarea(nombre, descripcion, sesion.usuario, "ok")
    /\ UNCHANGED <<sesion, hilos>>

\* menu_usuario, option 3: the name typed goes to finalizar_tarea as it is.
MenuUsuarioFinalizar ==
    /\ sesion.pc = "menu_usuario"
    /\ \E nombre \in NombresTarea : finalizar_tarea(nombre, "ok")
    /\ UNCHANGED <<sesion, hilos>>

\* Option 0 of the three menus: back to main, which logs in again.
SalirDelMenu ==
    /\ sesion.pc \in Menus
    /\ sesion' = EnLogin
    /\ UNCHANGED <<usuarios, tareas, historico, disco, creador, nextId,
                   fallos, res, hilos>>

NextMain ==
    \/ Main
    \/ Reiniciar
    \/ FlujoCrearAdminInicial
    \/ FlujoLogin
    \/ MenuAdminCrearUsuario
    \/ MenuAdminResetear
    \/ MenuSupervisorCrearTarea
    \/ MenuSupervisorAsignar
    \/ MenuUsuarioCrearTarea
    \/ MenuUsuarioFinalizar
    \/ SalirDelMenu

SpecMain == InitMain /\ [][NextMain]_vars

\* The console program with a user who answers the login prompt: input()
\* blocks until the credentials are typed, then the attempt is made.
SpecMainLogin == InitMain /\ [][NextMain]_vars /\ WF_vars(FlujoLogin)

\* ------------------------------------------------------------------------
\* The service shared by two threads, with no lock (there is none in
\* GestorTareas): each statement that reads or writes the shared
\* dictionaries or a file is one step
\* ------------------------------------------------------------------------

Hilos == {1, 2}

\* A call that a thread is about to make.
Llamada(op, nombre, rol, password, pc) ==
    [op |-> op, nombre |-> nombre, rol |-> rol, password |-> password,
     pc |-> pc,
     usuario |-> Vacio,     \* the Usuario built by crear_usuario
     leido |-> <<>>,        \* the archive as read by finalizar_tarea
     lista_u |-> Vacio,     \* list(self.usuarios.values()) of _guardar_todo
     lista_t |-> {},        \* list(self.tareas.values()): the Tarea objects
     res |-> Res(op, "en_curso", "")]

\* The names of the tasks that the service holds when the threads start.
NombresTareaHilos == {"t1", "t2"}

Llamadas ==
    {Llamada("crear_usuario", "bob", rol, password, "cu_existe") :
        rol \in {"user", "admin"}, password \in PasswordsValidos}
    \cup {Llamada("finalizar_tarea", t, "", Ninguna, "ft_get") :
            t \in NombresTareaHilos}
    \cup {Llamada("eliminar_tarea", t, "", Ninguna, "et_get") :
            t \in NombresTareaHilos}

\* The service holds an admin, a task t1, pending or already finished and
\* archived, and a pending task t2 when the two calls start.
InitHilos ==
    \E estado \in {"pendiente", "finalizada"} :
        LET t == cambiar_estado(Tarea("t1", "d1"), estado)
        IN /\ usuarios = Poner(Vacio, "ana",
                               Usuario(1, "ana", "Ana", "admin", "p1", "s1"))
           /\ tareas = Poner(Poner(Vacio, "t1", t), "t2", Tarea("t2", "d1"))
           /\ historico = IF estado = "finalizada"
                          THEN <<obtener_detalle(t)>> ELSE <<>>
           /\ disco = [usuarios |-> usuarios, tareas |-> tareas]
           /\ creador = [n \in NombresTareaHilos |-> "admin"]
           /\ nextId = 1
           /\ fallos = 0
           /\ res = Res("__init__", "none", "")
           /\ sesion = SinSesion
           /\ hilos \in [llamada : [Hilos -> Llamadas], borradas : {Vacio}]

\* The Tarea object of a name: a deleted object lives on for the threads
\* that hold it.
ObjetoDe(t) ==
    IF t \in DOMAIN tareas THEN tareas[t] ELSE hilos.borradas[t]

\* Thread i goes on with its local variables changed.
Sigue(i, l) == hilos' = [hilos EXCEPT !.llamada[i] = l]

\* Thread i returns or raises.
Termina(i, r) ==
    /\ hilos' = [hilos EXCEPT !.llamada[i].pc = "fin", !.llamada[i].res = r]
    /\ res' = r

\* crear_usuario, lines 62-70: the check of the name, then Usuario(...).
HiloCrearUsuarioExiste(i) ==
    LET l == hilos.llamada[i]
    IN /\ l.pc = "cu_existe"
       /\ IF l.nombre \in DOMAIN usuarios
          THEN /\ Termina(i, Res("crear_usuario", "ValueError",
                                 "Ya existe un usuario con ese nombre."))
               /\ UNCHANGED nextId
          ELSE /\ Sigue(i, [l EXCEPT
                     !.pc = "cu_insertar",
                     !.usuario = Usuario(nextId + 1, l.nombre, "Ana", l.rol,
                                         l.password, "s1")])
               /\ nextId' = nextId + 1
               /\ UNCHANGED res
       /\ UNCHANGED <<usuarios, tareas, historico, disco, creador, fallos,
                      sesion>>

\* crear_usuario, line 72
HiloCrearUsuarioInsertar(i) ==
    LET l == hilos.llamada[i]
    IN /\ l.pc = "cu_insertar"
       /\ usuarios' = Poner(usuarios, l.nombre, l.usuario)
       /\ Sigue(i, [l EXCEPT !.pc = "g_lista_u"])
       /\ UNCHANGED <<tareas, historico, disco, creador, nextId, fallos, res,
                      sesion>>

\* finalizar_tarea, lines 168-170
HiloFinalizarGet(i) ==
    LET l == hilos.llamada[i]
    IN /\ l.pc = "ft_get"
       /\ IF l.nombre \notin DOMAIN tareas
          THEN Termina(i, Res("finalizar_tarea", "ValueError",
                              "Tarea inexistente."))
          ELSE Sigue(i, [l EXCEPT !.pc = "ft_estado"]) /\ UNCHANGED res
       /\ UNCHANGED <<usuarios, tareas, historico, disco, creador, nextId,
                      fallos, sesion>>

\* finalizar_tarea, line 172, on the object that the thread holds
HiloFinalizarEstado(i) ==
    LET l == hilos.llamada[i]
        t == l.nombre
    IN /\ l.pc = "ft_estado"
       /\ IF ~PuedeFinalizar(ObjetoDe(t))
          THEN /\ Termina(i, ErrorYaFinalizada)
               /\ UNCHANGED tareas
          ELSE IF t \in DOMAIN tareas
          THEN /\ tareas' = [tareas EXCEPT
                                ![t] = cambiar_estado(@, "finalizada")]
               /\ Sigue(i, [l EXCEPT !.pc = "ft_leer"])
               /\ UNCHANGED res
          ELSE /\ hilos' = [hilos EXCEPT
                     !.llamada[i].pc = "ft_leer",
                     !.borradas[t] = cambiar_estado(@, "finalizada")]
               /\ UNCHANGED <<tareas, res>>
       /\ UNCHANGED <<usuarios, historico, disco, creador, nextId, fallos,
                      sesion>>

\* finalizar_tarea, line 174
HiloFinalizarLeer(i) ==
    LET l == hilos.llamada[i]
    IN /\ l.pc = "ft_leer"
       /\ Sigue(i, [l EXCEPT !.pc = "ft_escribir", !.leido = historico])
       /\ UNCHANGED <<usuarios, tareas, historico, disco, creador, nextId,
                      fallos, res, sesion>>

\* finalizar_tarea, lines 175-176
HiloFinalizarEscribir(i) ==
    LET l == hilos.llamada[i]
    IN /\ l.pc = "ft_escribir"
       /\ historico' = Append(l.leido, obtener_detalle(ObjetoDe(l.nombre)))
       /\ Sigue(i, [l EXCEPT !.pc = "g_lista_u"])
       /\ UNCHANGED <<usuarios, tareas, disco, creador, nextId, fallos, res,
                      sesion>>

\* eliminar_tarea, lines 184-186
HiloEliminarGet(i) ==
    LET l == hilos.llamada[i]
    IN /\ l.pc = "et_get"
       /\ IF l.nombre \notin DOMAIN tareas
          THEN Termina(i, Res("eliminar_tarea", "ValueError",
                              "Tarea inexistente."))
          ELSE Sigue(i, [l EXCEPT !.pc = "et_estado"]) /\ UNCHANGED res
       /\ UNCHANGED <<usuarios, tareas, historico, disco, creador, nextId,
                      fallos, sesion>>

\* eliminar_tarea, lines 188-189
HiloEliminarEstado(i) ==
    LET l == hilos.llamada[i]
    IN /\ l.pc = "et_estado"
       /\ IF ObjetoDe(l.nombre).estado # "finalizada"
          THEN Termina(i, Res("eliminar_tarea", "ValueError",
                              "Solo se pueden eliminar tareas finalizadas."))
          ELSE Sigue(i, [l EXCEPT !.pc = "et_del"]) /\ UNCHANGED res
       /\ UNCHANGED <<usuarios, tareas, historico, disco, creador, nextId,
                      fallos, sesion>>

\* eliminar_tarea, line 191: del raises KeyError when the other thread has
\* deleted the name already.
HiloEliminarDel(i) ==
    LET l == hilos.llamada[i]
        t == l.nombre
    IN /\ l.pc = "et_del"
       /\ IF t \notin DOMAIN tareas
          THEN /\ Termina(i, Res("eliminar_tarea", "KeyError", t))
               /\ UNCHANGED <<tareas, creador>>
          ELSE /\ tareas' = Quitar(tareas, t)
               /\ creador' = Quitar(creador, t)
               /\ hilos' = [hilos EXCEPT
                     !.llamada[i].pc = "g_lista_u",
                     !.borradas = Poner(@, t, tareas[t])]
               /\ UNCHANGED res
       /\ UNCHANGED <<usuarios, historico, disco, nextId, fallos, sesion>>

\* _guardar_todo, line 42: the argument list(self.usuarios.values())
HiloGuardarListaUsuarios(i) ==
    LET l == hilos.llamada[i]
    IN /\ l.pc = "g_lista_u"
       /\ Sigue(i, [l EXCEPT !.pc = "g_escribe_u", !.lista_u = usuarios])
       /\ UNCHANGED <<usuarios, tareas, historico, disco, creador, nextId,
                      fallos, res, sesion>>

\* _guardar_todo, line 42: guardar_datos writes usuarios.dat
HiloGuardarEscribeUsuarios(i) ==
    LET l == hilos.llamada[i]
    IN /\ l.pc = "g_escribe_u"
       /\ disco' = [disco EXCEPT !.usuarios = l.lista_u]
       /\ Sigue(i, [l EXCEPT !.pc = "g_lista_t"])
       /\ UNCHANGED <<usuarios, tareas, historico, creador, nextId, fallos,
                      res, sesion>>

\* _guardar_todo, line 43: the argument list(self.tareas.values())
HiloGuardarListaTareas(i) ==
    LET l == hilos.llamada[i]
    IN /\ l.pc = "g_lista_t"
       /\ Sigue(i, [l EXCEPT !.pc = "g_escribe_t",
                             !.lista_t = DOMAIN tareas])
       /\ UNCHANGED <<usuarios, tareas, historico, disco, creador, nextId,
                      fallos, res, sesion>>

\* _guardar_todo, line 43: guardar_datos pickles the objects of the list as
\* they are now, and the call returns.
HiloGuardarEscribeTareas(i) ==
    LET l == hilos.llamada[i]
    IN /\ l.pc = "g_escribe_t"
       /\ disco' = [disco EXCEPT
                       !.tareas = [t \in l.lista_t |-> ObjetoDe(t)]]
       /\ Termina(i, Ok(l.op))
       /\ UNCHANGED <<usuarios, tareas, historico, creador, nextId, fallos,
                      sesion>>

NextHilos ==
    \/ \E i \in Hilos : HiloCrearUsuarioExiste(i)
    \/ \E i \in Hilos : HiloCrearUsuarioInsertar(i)
    \/ \E i \in Hilos : HiloFinalizarGet(i)
    \/ \E i \in Hilos : HiloFinalizarEstado(i)
    \/ \E i \in Hilos : HiloFinalizarLeer(i)
    \/ \E i \in Hilos : HiloFinalizarEscribir(i)
    \/ \E i \in Hilos : HiloEliminarGet(i)
    \/ \E i \in Hilos : HiloEliminarEstado(i)
    \/ \E i \in Hilos : HiloEliminarDel(i)
    \/ \E i \in Hilos : HiloGuardarListaUsuarios(i)
    \/ \E i \in Hilos : HiloGuardarEscribeUsuarios(i)
    \/ \E i \in Hilos : HiloGuardarListaTareas(i)
    \/ \E i \in Hilos : HiloGuardarEscribeTareas(i)

SpecHilos == InitHilos /\ [][NextHilos]_vars

\* ------------------------------------------------------------------------
\* The queries of the service
\* ------------------------------------------------------------------------

\* obtener_tareas_de_usuario returning every task.
obtener_tareas_de_usuario_todas(usuario) == DOMAIN tareas

\* GestorTareas.obtener_tareas_de_usuario: the tasks with an assigned user
\* whose id is the id of the user given.
obtener_tareas_de_usuario(usuario) ==
    {t \in DOMAIN tareas :
        \E id \in tareas[t].usuarios_asignados : id = usuario.id}

\* GestorTareas.listar_usuarios
listar_usuarios == {usuarios[n] : n \in DOMAIN usuarios}

\* utils.calcular_estadisticas_tareas: counts of the tasks given.
calcular_estadisticas_tareas(ts) ==
    [total |-> Cardinality(DOMAIN ts),
     finalizadas |-> Cardinality({t \in DOMAIN ts :
                                     ts[t].estado = "finalizada"}),
     pendientes |-> Cardinality({t \in DOMAIN ts :
                                    ts[t].estado # "finalizada"})]

\* GestorTareas.obtener_estadisticas
obtener_estadisticas == calcular_estadisticas_tareas(tareas)

Consultas == {"listar_usuarios", "obtener_tareas_de_usuario",
              "obtener_estadisticas", "existe_admin"}

\* A query returns a value computed from self.usuarios and self.tareas and
\* assigns nothing.
Consulta(op) ==
    /\ res' = Ok(op)
    /\ UNCHANGED <<usuarios, tareas, historico, disco, creador, nextId,
                   fallos>>
    /\ SoloServicio

ListarUsuarios ==
    /\ listar_usuarios \subseteq {usuarios[n] : n \in DOMAIN usuarios}
    /\ Consulta("listar_usuarios")

ObtenerTareasDeUsuario ==
    \E n \in DOMAIN usuarios :
        /\ obtener_tareas_de_usuario(usuarios[n]) \subseteq DOMAIN tareas
        /\ Consulta("obtener_tareas_de_usuario")

ObtenerEstadisticas ==
    /\ obtener_estadisticas.total >= 0
    /\ Consulta("obtener_estadisticas")

ExisteAdmin ==
    /\ existe_admin \in BOOLEAN
    /\ Consulta("existe_admin")

NextConsultas ==
    \/ CrearUsuario(SinFallos)
    \/ ResetearPasswordUsuario(SinFallos)
    \/ CrearTarea(SinFallos)
    \/ AsignarUsuarioTarea(SinFallos)
    \/ FinalizarTarea(SinFallos)
    \/ EliminarTarea(SinFallos)
    \/ ListarUsuarios
    \/ ObtenerTareasDeUsuario
    \/ ObtenerEstadisticas
    \/ ExisteAdmin

SpecConsultas == Init /\ [][NextConsultas]_vars

\* ------------------------------------------------------------------------
\* The methods of Usuario, called on the users that crear_usuario has made
\* ------------------------------------------------------------------------

\* Passwords given to cambiar_password and verificar_password.
PasswordsUsuario == {"", "p1", "p2"} \cup PasswordsLargas

\* The value of bcrypt.gensalt() in cambiar_password called on an existing
\* user: not the salt drawn when the user was created.
SaltsUsuario == {"s2"}

\* What the installed bcrypt does with a password of more than 72 bytes:
\* it reads the first 72 (before version 5) or raises ValueError.
Bcrypt == {"trunca", "rechaza"}

ErrorBcryptLargo(op) ==
    Res(op, "ValueError", "password cannot be longer than 72 bytes")

ErrorPasswordVacia ==
    Res("cambiar_password", "ValueError",
        "La contraseña no puede estar vacía.")

\* Usuario.cambiar_password: how the call ends.
CambiarPasswordRes(password, lib) ==
    IF password = "" THEN ErrorPasswordVacia
    ELSE IF password \in PasswordsLargas /\ lib = "rechaza"
    THEN ErrorBcryptLargo("cambiar_password")
    ELSE Ok("cambiar_password")

\* Usuario.verificar_password: how the call ends; msg is the boolean
\* returned.
VerificarRes(u, password, lib) ==
    IF u.password_hash = SinHash
    THEN Res("verificar_password", "ValueError",
             "El usuario no tiene contraseña configurada.")
    ELSE IF password \in PasswordsLargas /\ lib = "rechaza"
    THEN ErrorBcryptLargo("verificar_password")
    ELSE Res("verificar_password", "none",
             IF CheckPw(password, u.password_hash) THEN "True" ELSE "False")

\* datetime.isoformat: the microseconds are written unless they are zero.
isoformat(d) ==
    IF d.microsegundos = 0 THEN <<d.segundos>>
    ELSE <<d.segundos, d.microsegundos>>

\* datetime.fromisoformat
fromisoformat(x) ==
    [segundos |-> x[1],
     microsegundos |-> IF Len(x) = 1 THEN 0 ELSE x[2]]

\* None in the serialized form, bytes.decode("utf-8"), str.encode("utf-8").
NoneJson == <<>>

Decode(b) == <<"str", b>>

Encode(x) == x[2]

\* Usuario.to_dict
to_dict(u) ==
    [id |-> u.id,
     nombre |-> u.nombre,
     nombre_visible |-> u.nombre_visible,
     rol |-> u.rol,
     password_hash |-> IF u.password_hash # SinHash
                       THEN Decode(u.password_hash) ELSE NoneJson,
     fecha_creacion |-> isoformat(u.fecha_creacion)]

\* from_dict that leaves the rebuilt user without its hash.
from_dict_sin_hash(data) ==
    [Usuario(data.id, data.nombre, data.nombre_visible, data.rol,
             Ninguna, "s1")
        EXCEPT !.fecha_creacion = fromisoformat(data.fecha_creacion)]

\* Usuario.from_dict: the constructor without a password, with the id and
\* the creation time of the data, then the stored hash.
from_dict(data) ==
    [Usuario(data.id, data.nombre, data.nombre_visible, data.rol,
             Ninguna, "s1")
        EXCEPT !.fecha_creacion = fromisoformat(data.fecha_creacion),
               !.password_hash = IF data.password_hash # NoneJson
                                 THEN Encode(data.password_hash) ELSE @]

\* A call of a method of the Usuario object held under a name.
Metodo == UNCHANGED <<tareas, historico, disco, creador, nextId, fallos,
                      sesion, hilos>>

CambiarPasswordDe(n, password, salt, lib) ==
    /\ res' = CambiarPasswordRes(password, lib)
    /\ usuarios' = IF CambiarPasswordRes(password, lib).exc = "none"
                   THEN [usuarios EXCEPT
                            ![n] = cambiar_password(@, password, salt)]
                   ELSE usuarios
    /\ Metodo

CambiarPassword ==
    \E n \in DOMAIN usuarios, password \in PasswordsUsuario,
       salt \in SaltsUsuario, lib \in Bcrypt :
        CambiarPasswordDe(n, password, salt, lib)

VerificarPassword ==
    \E n \in DOMAIN usuarios, password \in PasswordsUsuario, lib \in Bcrypt :
        /\ res' = VerificarRes(usuarios[n], password, lib)
        /\ UNCHANGED usuarios
        /\ Metodo

ResetearPassword ==
    \E n \in DOMAIN usuarios :
        /\ usuarios' = [usuarios EXCEPT ![n] = resetear_password(@)]
        /\ res' = Ok("resetear_password")
        /\ Metodo

\* Usuario.from_dict(u.to_dict()) takes the place of u.
IdaYVuelta ==
    \E n \in DOMAIN usuarios :
        /\ usuarios' = [usuarios EXCEPT ![n] = from_dict(to_dict(@))]
        /\ res' = Ok("from_dict")
        /\ Metodo

NextUsuario ==
    \/ CrearUsuario(SinFallos)
    \/ CambiarPassword
    \/ VerificarPassword
    \/ ResetearPassword
    \/ IdaYVuelta

SpecUsuario == Init /\ [][NextUsuario]_vars

\* ------------------------------------------------------------------------
\* Properties
\* ------------------------------------------------------------------------

\* The properties of single calls are stated for calls whose file writes
\* succeed (w \in SinFallos), the calls of Spec.

ErrorUsuarioDuplicado ==
    Res("crear_usuario", "ValueError", "Ya existe un usuario con ese nombre.")

\* C1: a crear_usuario call whose name is already held raises the
\* duplicate-name error and leaves the users dict, and so every field of
\* the user holding the name, as it was: a step either has that outcome or
\* is no such call.
C1_UsuarioDuplicadoRechazado ==
    [][\/ res'.op # "crear_usuario"
       \/ (res' = ErrorUsuarioDuplicado /\ usuarios' = usuarios)
       \/ \A nombre \in DOMAIN usuarios, nombre_visible \in NombresVisibles,
             rol \in RolesEntrada, password \in PasswordsCrear,
             salt \in Salts, w \in SinFallos :
             ~crear_usuario(nombre, nombre_visible, rol, password, salt, w)
      ]_vars

\* A duplicate creation was rejected while the holder of the name differs
\* from what the call asked for.
C1_Witness ==
    /\ res = ErrorUsuarioDuplicado
    /\ \E n \in DOMAIN usuarios :
          usuarios[n].rol = "admin" /\ usuarios[n].password_hash # SinHash

ErrorCrearTareaPermiso ==
    Res("crear_tarea", "PermissionError",
        "Solo administradores o supervisores pueden crear tareas.")

\* C2: no live task was created by an actor of role user, and a crear_tarea
\* call by such an actor raises PermissionError and leaves the tasks as
\* they were.
C2_SoloAdminOSupervisorCrea ==
    /\ [](\A t \in DOMAIN tareas : creador[t] \in {"admin", "supervisor"})
    /\ [][\A actor \in DOMAIN usuarios, n \in NombresTareaEntrada,
             d \in Descripciones, w \in SinFallos :
             (usuarios[actor].rol = "user" /\ crear_tarea(n, d, actor, w))
             => (res' = ErrorCrearTareaPermiso /\ tareas' = tareas)]_vars

\* An actor of role user was turned away although the name was free.
C2_Witness ==
    /\ res = ErrorCrearTareaPermiso
    /\ tareas = Vacio
    /\ \E n \in DOMAIN usuarios : usuarios[n].rol = "admin"

ErrorAsignarSupervisor ==
    Res("asignar_usuario_tarea", "PermissionError",
        "Un supervisor solo puede asignar tareas a usuarios " \o "comunes.")

\* C3: for an existing user and an existing task, a supervisor's
\* assignment raises PermissionError and leaves the tasks as they were when
\* the target is not of role user, and assigns the target when it is; an
\* admin's assignment assigns any target.
C3_SupervisorSoloAsignaAUsuarios ==
    [][res'.op = "asignar_usuario_tarea" =>
        \A actor \in DOMAIN usuarios, u \in DOMAIN usuarios,
           t \in DOMAIN tareas, w \in SinFallos :
           asignar_usuario_tarea(actor, u, t, w) =>
             /\ (usuarios[actor].rol = "supervisor"
                 /\ usuarios[u].rol # "user")
                => (res' = ErrorAsignarSupervisor /\ tareas' = tareas)
             /\ (usuarios[actor].rol = "admin"
                 \/ (usuarios[actor].rol = "supervisor"
                     /\ usuarios[u].rol = "user"))
                => /\ res' = Ok("asignar_usuario_tarea")
                   /\ tareas'[t].usuarios_asignados =
                         tareas[t].usuarios_asignados \cup {usuarios[u].id}
      ]_vars

\* A supervisor was refused a target while a task and an admin exist.
C3_Witness ==
    /\ res = ErrorAsignarSupervisor
    /\ \E t \in DOMAIN tareas : tareas[t].usuarios_asignados = {}
    /\ \E n \in DOMAIN usuarios : usuarios[n].rol = "admin"

\* C4: in every step, a task that is finished and stays in the tasks dict
\* is still finished afterwards.
C4_EstadoNoRetrocede ==
    [][\A t \in DOMAIN tareas \cap DOMAIN tareas' :
          tareas[t].estado = "finalizada"
          => tareas'[t].estado = "finalizada"]_vars

\* A call changed a finished task, which is still finished.
C4_Witness ==
    /\ res = Ok("asignar_usuario_tarea")
    /\ \E t \in DOMAIN tareas :
          /\ tareas[t].estado = "finalizada"
          /\ tareas[t].usuarios_asignados # {}
          /\ \A i \in 1..Len(historico) :
                historico[i].usuarios_asignados = {}

\* C5: finalizar_tarea on a finished task raises the state error and
\* changes neither the tasks, nor the archive, nor the files on disk.
C5_FinalizarDosVecesFalla ==
    [][\A t \in DOMAIN tareas, w \in SinFallos :
          (tareas[t].estado = "finalizada" /\ finalizar_tarea(t, w))
          => (res' = ErrorYaFinalizada
              /\ UNCHANGED <<tareas, historico, disco>>)]_vars

\* A second finish was refused: the task is finished and archived once.
C5_Witness ==
    /\ res = ErrorYaFinalizada
    /\ Len(historico) = 1
    /\ \E t \in DOMAIN tareas : tareas[t].estado = "finalizada"

ErrorEliminarPendiente ==
    Res("eliminar_tarea", "ValueError",
        "Solo se pueden eliminar tareas finalizadas.")

ErrorEliminarInexistente ==
    Res("eliminar_tarea", "ValueError", "Tarea inexistente.")

\* C6: a step removes a task from the tasks dict only if the task was
\* finished; eliminar_tarea on a pending task raises the not-finished
\* error, on a name that is not held the not-found error, and in both
\* cases users, tasks, archive and disk stay as they were.
C6_SoloSeEliminanFinalizadas ==
    [][/\ \A t \in DOMAIN tareas \ DOMAIN tareas' :
             tareas[t].estado = "finalizada"
       /\ \A t \in NombresTarea, w \in SinFallos :
             eliminar_tarea(t, w) =>
               /\ (t \in DOMAIN tareas /\ tareas[t].estado # "finalizada")
                  => /\ res' = ErrorEliminarPendiente
                     /\ UNCHANGED <<usuarios, tareas, historico, disco>>
               /\ t \notin DOMAIN tareas
                  => /\ res' = ErrorEliminarInexistente
                     /\ UNCHANGED <<usuarios, tareas, historico, disco>>
      ]_vars

\* The deletion of a pending task, with users assigned, was refused.
C6_Witness ==
    /\ res = ErrorEliminarPendiente
    /\ \E t \in DOMAIN tareas :
          /\ tareas[t].estado = "pendiente"
          /\ tareas[t].usuarios_asignados # {}

\* s is a prefix of t.
EsPrefijo(s, t) == Len(s) <= Len(t) /\ SubSeq(t, 1, Len(s)) = s

\* C7: in every step the archive before the step is a prefix of the
\* archive after it.
C7_HistoricoSoloCrece ==
    [][EsPrefijo(historico, historico')]_vars

\* A task was finished and deleted, and a second task of the same name
\* was finished and deleted: both entries are in the archive.
C7_Witness ==
    /\ Len(historico) = 2
    /\ historico[1].nombre = historico[2].nombre
    /\ historico[1] # historico[2]
    /\ tareas = Vacio
    /\ res = Ok("eliminar_tarea")

\* C8: every task that the files on disk hold as finished has an entry in
\* the archive.
C8_FinalizadaEnDiscoEstaArchivada ==
    \A t \in DOMAIN disco.tareas :
        disco.tareas[t].estado = "finalizada"
        => \E i \in 1..Len(historico) : historico[i].nombre = t

\* C9 as stated: a finalizar_tarea call that succeeds on a pending task
\* appends to the archive the detail the task had before the call, status
\* included.
C9_EntradaIgualAlDetallePrevio ==
    [][\A t \in DOMAIN tareas, w \in SinFallos :
          (tareas[t].estado = "pendiente" /\ finalizar_tarea(t, w)
           /\ res' = Ok("finalizar_tarea"))
          => historico' = Append(historico, obtener_detalle(tareas[t]))
      ]_vars

\* C9: a finalizar_tarea call that succeeds on a pending task appends
\* exactly one entry to the archive: the detail the task had before the
\* call (name, description, assigned users, comments) with the status
\* finished.
C9_EntradaEsElDetalleFinalizado ==
    [][\A t \in DOMAIN tareas, w \in SinFallos :
          (tareas[t].estado = "pendiente" /\ finalizar_tarea(t, w)
           /\ res' = Ok("finalizar_tarea"))
          => historico' =
                Append(historico,
                       [obtener_detalle(tareas[t])
                           EXCEPT !.estado = "finalizada"])
      ]_vars

\* A task with two users assigned was finished and archived.
C9_Witness ==
    /\ res = Ok("finalizar_tarea")
    /\ Len(historico) = 1
    /\ Cardinality(historico[1].usuarios_asignados) = 2
    /\ historico[1].estado = "finalizada"

\* The users of each login failure.
SinPassword(n) ==
    n \in DOMAIN usuarios /\ usuarios[n].password_hash = SinHash

PasswordErronea(n, p) ==
    /\ n \in DOMAIN usuarios
    /\ usuarios[n].password_hash # SinHash
    /\ ~CheckPw(p, usuarios[n].password_hash)

\* C10: the exception class of autenticar_usuario for a user without a
\* password differs from the one for a wrong password.
C10_FallosDeLoginDistintosPorClase ==
    \A n1 \in Nombres, n2 \in Nombres,
       p1 \in PasswordsLogin, p2 \in PasswordsLogin :
        (SinPassword(n1) /\ PasswordErronea(n2, p2))
        => AutenticarRes(usuarios, n1, p1).exc
              # AutenticarRes(usuarios, n2, p2).exc

\* ------------------------------------------------------------------------
\* Password reset
\* ------------------------------------------------------------------------

ErrorResetPermiso ==
    Res("resetear_password_usuario", "PermissionError",
        "Solo un admin puede resetear contraseñas.")

ErrorResetInexistente ==
    Res("resetear_password_usuario", "ValueError", "Usuario inexistente.")

ErrorSinPassword ==
    Res("autenticar_usuario", "ValueError",
        "El usuario no tiene contraseña configurada.")

\* C12: resetear_password_usuario by an actor who is not an admin raises the
\* permission error and changes no user, whether or not the target exists;
\* an admin naming a missing target gets the not-found error.
C12_ResetPermisoPrimero ==
    [][\/ res'.op # "resetear_password_usuario"
       \/ \A admin \in DOMAIN usuarios, nombre_usuario \in Nombres,
             w \in SinFallos :
             resetear_password_usuario(admin, nombre_usuario, w)
             => /\ ~es_admin(usuarios[admin])
                   => (res' = ErrorResetPermiso /\ usuarios' = usuarios)
                /\ (es_admin(usuarios[admin])
                       /\ nombre_usuario \notin DOMAIN usuarios)
                   => (res' = ErrorResetInexistente
                          /\ usuarios' = usuarios)]_vars

\* A non-admin was refused while some name was held by no user.
C12_Witness ==
    /\ res = ErrorResetPermiso
    /\ \E n \in Nombres : n \notin DOMAIN usuarios
    /\ \A n \in DOMAIN usuarios : ~es_admin(usuarios[n])

\* C13: a successful reset leaves the target without a hash, whatever it
\* was; a user without a hash keeps none in every later step; every
\* login of such a user, the old password included, raises the
\* no-password error; and a reset of a user without a hash succeeds and
\* changes no user.
C13_ResetDejaSinPassword ==
    /\ [][\/ res'.op # "resetear_password_usuario"
          \/ \A admin \in DOMAIN usuarios, n \in DOMAIN usuarios,
                w \in SinFallos :
                (resetear_password_usuario(admin, n, w)
                    /\ res' = Ok("resetear_password_usuario"))
                => /\ usuarios'[n].password_hash = SinHash
                   /\ \A p \in PasswordsLogin :
                         AutenticarRes(usuarios', n, p) = ErrorSinPassword
                   /\ SinPassword(n) => usuarios' = usuarios]_vars
    /\ [][\A n \in DOMAIN usuarios :
             SinPassword(n)
             => (n \in DOMAIN usuarios'
                    /\ usuarios'[n].password_hash = SinHash)]_vars
    /\ [](\A n \in Nombres, p \in PasswordsLogin :
             SinPassword(n)
             => AutenticarRes(usuarios, n, p) = ErrorSinPassword)

\* A reset succeeded and every user, all of them admins, has no hash.
C13_Witness ==
    /\ res = Ok("resetear_password_usuario")
    /\ \E n \in DOMAIN usuarios : SinPassword(n)
    /\ \A n \in DOMAIN usuarios :
          SinPassword(n) /\ es_admin(usuarios[n])

\* ------------------------------------------------------------------------
\* Persistence of the two collections
\* ------------------------------------------------------------------------

\* What usuarios.dat and tareas.dat would hold if written now.
Memoria == [usuarios |-> usuarios, tareas |-> tareas]

Mutadoras ==
    {"crear_usuario", "resetear_password_usuario", "crear_tarea",
     "asignar_usuario_tarea", "finalizar_tarea", "eliminar_tarea"}

C17_GuardarTodoAtomico ==
    [][disco' = disco \/ disco' = Memoria']_vars

\* The change of memory that each mutating method makes before it saves.
CambioHecho ==
    /\ res'.op = "crear_usuario"
       => \E n \in DOMAIN usuarios' : n \notin DOMAIN usuarios
    /\ res'.op = "resetear_password_usuario"
       => \E n \in DOMAIN usuarios :
             usuarios' = [usuarios EXCEPT ![n] = resetear_password(@)]
    /\ res'.op = "crear_tarea"
       => \E t \in DOMAIN tareas' : t \notin DOMAIN tareas
    /\ res'.op = "asignar_usuario_tarea"
       => \E t \in DOMAIN tareas, n \in DOMAIN usuarios :
             tareas' = [tareas EXCEPT ![t] = agregar_usuario(@, usuarios[n])]
    /\ res'.op = "finalizar_tarea"
       => \E t \in DOMAIN tareas :
             /\ tareas[t].estado = "pendiente"
             /\ tareas' = [tareas EXCEPT ![t] = cambiar_estado(@, "finalizada")]
    /\ res'.op = "eliminar_tarea"
       => \E t \in DOMAIN tareas : tareas' = Quitar(tareas, t)

FalloDeEscritura == res'.exc = "OSError"

ExitoDeMutadora == res'.op \in Mutadoras /\ res'.exc = "none"

C11_PrimerLoginFijaPassword ==
    [][\A usuario \in NombresMain, password \in PasswordsLogin,
          nueva_pwd \in PasswordsNuevas, salt \in Salts :
          (SinPassword(usuario)
              /\ IntentoDeLogin(usuario, password, nueva_pwd, salt))
          => /\ sesion'.pc \in Menus
             /\ sesion'.usuario = usuario
             /\ usuarios'[usuario].password_hash # SinHash]_vars

\* C14: a step that adds a user is the creation of the first admin, or is
\* taken in the menu of a logged-in admin.
C14_SoloAdminCreaUsuarios ==
    [][DOMAIN usuarios' # DOMAIN usuarios
       => \/ /\ sesion.pc = "flujo_crear_admin_inicial"
             /\ ~existe_admin
             /\ \A n \in DOMAIN usuarios' : es_admin(usuarios'[n])
          \/ /\ sesion.pc = "menu_admin"
             /\ sesion.usuario \in DOMAIN usuarios
             /\ es_admin(usuarios[sesion.usuario])]_vars

\* A supervisor or a user is logged in while a name is still free, and an
\* admin has added users before.
C14_Witness ==
    /\ sesion.pc \in {"menu_supervisor", "menu_usuario"}
    /\ ~es_admin(usuarios[sesion.usuario])
    /\ Cardinality(DOMAIN usuarios) = 2
    /\ res.op \in {"crear_tarea", "asignar_usuario_tarea", "finalizar_tarea"}

\* C15: a task becomes finished only in the session of a user that the
\* task is assigned to.
C15_FinalizaSoloElAsignado ==
    [][\A t \in DOMAIN tareas :
          (tareas[t].estado = "pendiente"
              /\ t \in DOMAIN tareas'
              /\ tareas'[t].estado = "finalizada")
          => /\ sesion.usuario \in DOMAIN usuarios
             /\ usuarios[sesion.usuario].id
                    \in tareas[t].usuarios_asignados]_vars

\* ------------------------------------------------------------------------
\* Two calls at once
\* ------------------------------------------------------------------------

\* Both threads have returned or raised.
Terminados == \A i \in Hilos : hilos.llamada[i].pc = "fin"

\* C19: when two crear_usuario calls for the same name have ended, one
\* has returned its user, the other has raised the duplicate-name error,
\* and the dictionary holds the user that was returned.
C19_UnSoloCrearUsuarioGana ==
    \A i \in Hilos, j \in Hilos :
        (/\ hilos.llamada[i].op = "crear_usuario"
         /\ hilos.llamada[j].op = "crear_usuario"
         /\ hilos.llamada[i].nombre = hilos.llamada[j].nombre
         /\ i # j
         /\ Terminados)
        => \E g \in {i, j}, p \in {i, j} :
              /\ g # p
              /\ hilos.llamada[g].res = Ok("crear_usuario")
              /\ hilos.llamada[p].res = ErrorUsuarioDuplicado
              /\ usuarios[hilos.llamada[g].nombre] = hilos.llamada[g].usuario

\* The archive entries of a task name.
EntradasDe(t) == {k \in 1..Len(historico) : historico[k].nombre = t}

\* C20: when a finalizar_tarea and an eliminar_tarea of the same name have
\* both ended, the task is live and finished or is gone, the archive has
\* exactly one entry for it, and both files equal the memory.
C20_FinalizarYEliminarCoherentes ==
    \A i \in Hilos, j \in Hilos :
        (/\ hilos.llamada[i].op = "finalizar_tarea"
         /\ hilos.llamada[j].op = "eliminar_tarea"
         /\ hilos.llamada[i].nombre = hilos.llamada[j].nombre
         /\ Terminados)
        => LET t == hilos.llamada[i].nombre
           IN /\ t \in DOMAIN tareas => tareas[t].estado = "finalizada"
              /\ Cardinality(EntradasDe(t)) = 1
              /\ disco = Memoria

\* ------------------------------------------------------------------------
\* The first admin
\* ------------------------------------------------------------------------

\* C21: the console program asks for a login and opens a menu only when
\* an admin exists; while none exists the only user it creates is an
\* admin with a password; and an admin, once there, is there in every
\* later state.
C21_AdminAntesDeTodo ==
    /\ [](sesion.pc \in Menus \cup {"flujo_login", "exit"} => existe_admin)
    /\ [](~existe_admin => (usuarios = Vacio /\ tareas = Vacio))
    /\ [][(~existe_admin /\ usuarios' # usuarios)
          => /\ sesion.pc = "flujo_crear_admin_inicial"
             /\ \A n \in DOMAIN usuarios' :
                   /\ es_admin(usuarios'[n])
                   /\ usuarios'[n].password_hash # SinHash]_vars
    /\ [][existe_admin => existe_admin']_vars
    /\ [][res'.op = "autenticar_usuario" => existe_admin]_vars

\* The first admin has just been created and the login is asked for.
C21_Witness ==
    /\ sesion = EnLogin
    /\ res = Ok("crear_usuario")
    /\ Cardinality(DOMAIN usuarios) = 1
    /\ existe_admin


\* C22: for every non-empty password p, once cambiar_password(p) has been
\* called on a user (whatever password the user had before),
\* verificar_password(p) returns True and verificar_password(p2) returns False
\* for every other non-empty p2; in particular a second cambiar_password
\* replaces the password set by the first.
C22_VerificaLoFijado ==
    [][\A n \in DOMAIN usuarios, p \in PasswordsUsuario \ {""},
          salt \in SaltsUsuario, lib \in Bcrypt :
          CambiarPasswordDe(n, p, salt, lib)
          => /\ res'.exc = "none"
             /\ \A p2 \in PasswordsUsuario \ {""} :
                   VerificarRes(usuarios'[n], p2, lib)
                     = Res("verificar_password", "none",
                           IF p2 = p THEN "True" ELSE "False")]_vars


\* C23: crear_usuario with an empty name, a role outside user / supervisor /
\* admin or an empty password raises ValueError, adds no user and writes no
\* file; with a fresh non-empty name, any of the three roles and a password
\* that is not empty it succeeds and the user is there with that role; and
\* cambiar_password("") on an existing user raises ValueError and leaves its
\* hash as it was.
C23_EntradaInvalidaNoCreaNada ==
    [][/\ res'.op = "crear_usuario"
          => \A nombre \in NombresEntrada, nombre_visible \in NombresVisibles,
                rol \in RolesEntrada, password \in PasswordsCrear,
                salt \in Salts, w \in SinFallos :
                crear_usuario(nombre, nombre_visible, rol, password, salt, w)
                => /\ (nombre = "" \/ rol \notin Roles \/ password = "")
                      => /\ res'.exc = "ValueError"
                         /\ usuarios' = usuarios
                         /\ disco' = disco
                   /\ (/\ nombre # "" /\ nombre \notin DOMAIN usuarios
                       /\ rol \in Roles /\ password # "")
                      => /\ res' = Ok("crear_usuario")
                         /\ DOMAIN usuarios' = DOMAIN usuarios \cup {nombre}
                         /\ usuarios'[nombre].rol = rol
       /\ res'.op = "cambiar_password"
          => \A n \in DOMAIN usuarios, salt \in SaltsUsuario, lib \in Bcrypt :
                CambiarPasswordDe(n, "", salt, lib)
                => /\ res'.exc = "ValueError"
                   /\ usuarios' = usuarios]_vars

\* A role outside the three was refused while the users in memory, changed
\* since the last save, differ from the file, which a save would have shown.
C23_Witness ==
    /\ res = Res("crear_usuario", "ValueError",
                 "El rol debe ser 'user', 'supervisor' o 'admin'.")
    /\ usuarios # Vacio
    /\ disco.usuarios # usuarios


\* C24: for every user the program holds, Usuario.from_dict(u.to_dict()) has
\* the same id, name, display name, role and creation time as u, has no
\* password hash exactly when u has none, and verificar_password ends the
\* same way on both for every password.
C24_IdaYVueltaDeUsuario ==
    \A n \in DOMAIN usuarios :
        LET u == usuarios[n]
            v == from_dict(to_dict(u))
        IN /\ v.id = u.id
           /\ v.nombre = u.nombre
           /\ v.nombre_visible = u.nombre_visible
           /\ v.rol = u.rol
           /\ v.fecha_creacion = u.fecha_creacion
           /\ (v.password_hash = SinHash) <=> (u.password_hash = SinHash)
           /\ v.password_hash = u.password_hash
           /\ \A password \in PasswordsUsuario, lib \in Bcrypt :
                 VerificarRes(v, password, lib) = VerificarRes(u, password, lib)

\* A round trip was made with a user that has a password and a user that has
\* none, one created on a whole second and one not.
C24_Witness ==
    /\ res = Ok("from_dict")
    /\ \E n, m \in DOMAIN usuarios :
          /\ usuarios[n].password_hash # SinHash
          /\ usuarios[m].password_hash = SinHash
          /\ usuarios[n].fecha_creacion.microsegundos
               # usuarios[m].fecha_creacion.microsegundos


ErrorTareaDuplicada ==
    Res("crear_tarea", "ValueError", "Ya existe una tarea con ese nombre.")

\* C25: crear_tarea with the name of a task the service holds never creates
\* anything: called by an admin or a supervisor it raises the duplicate-name
\* ValueError (called by a user, the PermissionError that comes first), and
\* the task under that name, its state and its assigned users, the other
\* tasks, the archive and the files stay as they were.
C25_TareaDuplicadaRechazada ==
    [][res'.op = "crear_tarea"
       => \A nombre \in DOMAIN tareas, descripcion \in Descripciones,
             actor \in DOMAIN usuarios, w \in SinFallos :
             crear_tarea(nombre, descripcion, actor, w)
             => /\ res'.exc # "none"
                /\ (es_admin(usuarios[actor]) \/ es_supervisor(usuarios[actor]))
                   => res' = ErrorTareaDuplicada
                /\ tareas' = tareas
                /\ historico' = historico
                /\ disco' = disco]_vars

\* The name of a finished task with assigned users was refused, and the task
\* is still finished with its users.
C25_Witness ==
    /\ res = ErrorTareaDuplicada
    /\ \E t \in DOMAIN tareas :
          /\ tareas[t].estado = "finalizada"
          /\ tareas[t].usuarios_asignados # {}


\* C26: listar_usuarios, obtener_tareas_de_usuario, obtener_estadisticas and
\* existe_admin change neither the users, the tasks, the archive nor the
\* files, and obtener_tareas_de_usuario(u) is exactly the set of tasks held
\* whose assigned users include the id of u.
C26_ConsultasNoCambianNada ==
    /\ [][res'.op \in Consultas
          => UNCHANGED <<usuarios, tareas, historico, disco>>]_vars
    /\ [](\A n \in DOMAIN usuarios :
             obtener_tareas_de_usuario(usuarios[n])
               = {t \in DOMAIN tareas :
                     usuarios[n].id \in tareas[t].usuarios_asignados})

\* The tasks of a user were asked for while one user has a task and another
\* has none.
C26_Witness ==
    /\ res = Ok("obtener_tareas_de_usuario")
    /\ \E n, m \in DOMAIN usuarios :
          /\ obtener_tareas_de_usuario(usuarios[n]) # {}
          /\ obtener_tareas_de_usuario(usuarios[m]) = {}
          /\ tareas # Vacio


\* C27: after every call, also one whose archive write or save raised, each
\* task that is finished in self.tareas has an entry in the archive.
C27_FinalizadaEnMemoriaEstaArchivada ==
    \A t \in DOMAIN tareas :
        tareas[t].estado = "finalizada"
        => \E i \in 1..Len(historico) : historico[i].nombre = t


ErrorAsignarPermiso ==
    Res("asignar_usuario_tarea", "PermissionError",
        "No tiene permisos para asignar tareas.")

ErrorAsignarInexistente ==
    Res("asignar_usuario_tarea", "ValueError", "Usuario o tarea inexistente.")

\* C28: asignar_usuario_tarea tests in this order: an actor of role user gets
\* the PermissionError whether or not the user and the task named exist; an
\* admin or supervisor naming a missing user or task gets the not-found
\* ValueError; a supervisor naming an existing task and an existing user that
\* is not of role user gets the second PermissionError; and a call that
\* raises one of them changes no task and no user and writes no file.
C28_AsignarOrdenDeChequeos ==
    [][res'.op = "asignar_usuario_tarea"
       => \A actor \in DOMAIN usuarios, nombre_usuario \in Nombres,
             nombre_tarea \in NombresTarea :
             asignar_usuario_tarea(actor, nombre_usuario, nombre_tarea, "ok")
             => LET falta == \/ nombre_usuario \notin DOMAIN usuarios
                             \/ nombre_tarea \notin DOMAIN tareas
                IN /\ usuarios[actor].rol = "user"
                      => res' = ErrorAsignarPermiso
                   /\ (usuarios[actor].rol # "user" /\ falta)
                      => res' = ErrorAsignarInexistente
                   /\ (usuarios[actor].rol = "supervisor" /\ ~falta)
                      => IF usuarios[nombre_usuario].rol # "user"
                         THEN res' = ErrorAsignarSupervisor
                         ELSE res' = Ok("asignar_usuario_tarea")
                   /\ (usuarios[actor].rol = "admin" /\ ~falta)
                      => res' = Ok("asignar_usuario_tarea")
                   /\ res'.exc # "none"
                      => /\ tareas' = tareas
                         /\ usuarios' = usuarios
                         /\ historico' = historico
                         /\ disco' = disco]_vars

\* An actor of role user was refused for lack of permission although no task
\* exists, while the users in memory differ from the file, which a save would
\* have shown.
C28_Witness ==
    /\ res = ErrorAsignarPermiso
    /\ tareas = Vacio
    /\ disco.usuarios # usuarios


\* C29: when two finalizar_tarea calls on two different tasks, both pending
\* when the calls started, have ended, the archive holds an entry for each
\* of the two tasks.
C29_DosFinalizarDejanDosEntradas ==
    \A i \in Hilos, j \in Hilos :
        (/\ hilos.llamada[i].op = "finalizar_tarea"
         /\ hilos.llamada[j].op = "finalizar_tarea"
         /\ hilos.llamada[i].nombre # hilos.llamada[j].nombre
         /\ hilos.llamada[i].res = Ok("finalizar_tarea")
         /\ hilos.llamada[j].res = Ok("finalizar_tarea")
         /\ Terminados)
        => /\ EntradasDe(hilos.llamada[i].nombre) # {}
           /\ EntradasDe(hilos.llamada[j].nombre) # {}


\* C30: flujo_login starts with three attempts; while it runs the counter is
\* between 1 and 3; every attempt either authenticates the credentials typed
\* and returns that user to a menu, or fails and takes one from the counter,
\* ending the process when the third has failed; no attempt that failed
\* returns a user; and with the prompt answered, the flow is always left.
C30_LoginTermina ==
    /\ [](sesion.intentos \in 0..IntentosLogin)
    /\ [](sesion.pc = "flujo_login" => sesion.intentos >= 1)
    /\ [][(sesion.pc # "flujo_login" /\ sesion'.pc = "flujo_login")
          => sesion'.intentos = 3]_vars
    /\ [][sesion.pc = "flujo_login"
          => \A usuario \in NombresMain, password \in PasswordsLogin,
                nueva_pwd \in PasswordsNuevas, salt \in Salts :
                IntentoDeLogin(usuario, password, nueva_pwd, salt)
                => LET valido == /\ usuario \in DOMAIN usuarios
                                 /\ usuarios[usuario].password_hash # SinHash
                                 /\ CheckPw(password,
                                        usuarios[usuario].password_hash)
                   IN IF valido
                      THEN /\ sesion'.pc \in Menus
                           /\ sesion'.usuario = usuario
                           /\ res'.exc = "none"
                      ELSE /\ res'.exc # "none"
                           /\ sesion'.usuario = Ninguna
                           /\ IF sesion.intentos = 1
                              THEN sesion'.pc = "exit"
                              ELSE /\ sesion'.pc = "flujo_login"
                                   /\ sesion'.intentos = sesion.intentos - 1
      ]_vars
    /\ (sesion.pc = "flujo_login") ~> (sesion.pc # "flujo_login")

\* The third attempt in a row has failed and the process has ended.
C30_Witness ==
    /\ sesion.pc = "exit"
    /\ res.op = "autenticar_usuario"
    /\ res.exc = "ValueError"
    /\ existe_admin

====
